---- MODULE Spec2Model ----
(***************************************************************************)
(* Join-server settings form of the device general-settings view:         *)
(*   - validation-schema (src/unnamed/part_000): the Yup schema whose     *)
(*     cast/validate depend on the context {externalJs, lorawanVersion};  *)
(*   - JoinServerForm (join-server-form/index.js): the React component    *)
(*     that binds the schema to the form (Formik) state.                  *)
(*                                                                         *)
(* Representation of JavaScript values.  An optional value is a sequence  *)
(* of length at most one: <<>> is `undefined` (the property is missing or *)
(* holds undefined, which the model does not tell apart), <<v>> is v.     *)
(* A root key is undefined, the empty object {} (<<[key |-> <<>>]>>, a    *)
(* key the Join Server does not expose) or {key: k}.                      *)
(***************************************************************************)
EXTENDS Integers, Sequences, FiniteSets, TLC

None == <<>>
Some(v) == <<v>>
IsSome(o) == o /= <<>>
Val(o) == o[1]

(***************************************************************************)
(* Bounds of the model.                                                    *)
(***************************************************************************)
\* The model has no counter: the form can be edited, toggled, submitted and
\* re-initialised without end, over finitely many states.  What bounds it
\* is the finite domains below (devices, typed values, generated keys).

(***************************************************************************)
(* Program constants.                                                      *)
(***************************************************************************)
\* parseLorawanMacVersion(version) >= 110: LoRaWAN 1.1.0 and higher.
NewLorawanVersion == 110
\* .length(16 * 2, m.validate32): a root key is 16 bytes, 32 hex characters.
KeyHexLength == 32
\* .emptyOrLength(3 * 2, m.validate6): a NetID is 3 bytes, 6 hex characters.
NetIdHexLength == 6

(***************************************************************************)
(* Collaborators that live outside the two source files.                   *)
(***************************************************************************)
\* new URL(jsConfig.base_url).hostname: the configured Join Server host.
DefaultJsHost == "js.cluster.local"

\* lib/regexp `address`: the host names the pattern accepts, among the
\* addresses of the model.
AddressOk == {"js.cluster.local", "js.example.com"}
addressRegexp(s) == s \in AddressOk

\* lib/random-bytes: randomByteString(32), a random hex string of 32
\* characters.  The draw d stands for the generator's entropy: each draw
\* gives another string.
Draws == { "entropy 1", "entropy 2" }
randomByteString(d) ==
    IF d = "entropy 1" THEN "0f0f0f0f0f0f0f0f0f0f0f0f0f0f0f0f"
                       ELSE "a1a1a1a1a1a1a1a1a1a1a1a1a1a1a1a1"

\* const random16BytesString = () => randomByteString(32)
random16BytesString(d) == randomByteString(d)

\* utils.parseLorawanMacVersion: a version is the sequence of its dotted
\* numeric components, <<1, 1, 0>> for "1.1.0"; the first three are weighted
\* into one number (110).  Anything else (<<>>: undefined or not a version)
\* parses to 0.
parseLorawanMacVersion(v) ==
    IF Len(v) >= 3 THEN 100 * v[1] + 10 * v[2] + v[3] ELSE 0

(***************************************************************************)
(* The context of a cast or validate call.  `given` is FALSE when the call *)
(* passes no options, so that $externalJs and $lorawanVersion resolve to   *)
(* undefined.                                                              *)
(***************************************************************************)
Context(ext, version) ==
    [given |-> TRUE, externalJs |-> ext, lorawanVersion |-> version]
NoContext == [given |-> FALSE, externalJs |-> FALSE, lorawanVersion |-> <<>>]

\* `is: true` / `is: false` compare with ===; `if (externalJs)` is truthiness.
ExtIsTrue(ctx) == ctx.given /\ ctx.externalJs
ExtIsFalse(ctx) == ctx.given /\ ~ctx.externalJs
CtxVersion(ctx) == IF ctx.given THEN ctx.lorawanVersion ELSE <<>>

(***************************************************************************)
(* validationSchema.cast, field by field.                                  *)
(***************************************************************************)
\* join_server_address: when $externalJs is false, default to the configured
\* host; otherwise strip.
CastAddressLeak(v, ctx) ==
    IF IsSome(v) THEN v ELSE Some(DefaultJsHost)
CastAddress(v, ctx) ==
    IF ExtIsFalse(ctx)
      THEN IF IsSome(v) THEN v ELSE Some(DefaultJsHost)
      ELSE None

\* net_id: when $externalJs is true, strip; otherwise default ''.
CastNetId(v, ctx) ==
    IF ExtIsTrue(ctx)
      THEN None
      ELSE IF IsSome(v) THEN v ELSE Some("")

\* keySchema, the non-external branch: Yup.object().shape({key:
\* Yup.string().length(32).default(random16BytesString)}).  Cast of undefined
\* gives the object schema's default, built from the default of `key`; cast
\* of an object fills a missing `key` with its default.
CastKey(k, d) ==
    IF IsSome(k) /\ IsSome(Val(k).key)
      THEN k
      ELSE Some([key |-> Some(random16BytesString(d))])

\* root_keys: Yup.object().when(['$externalJs', '$lorawanVersion'], ...).
\* The callback picks the shape; the shape's fields are cast only when
\* root_keys is an object.  For an undefined root_keys Yup's object schema
\* returns its default(), an object built from the default() of each field
\* of the shape without casting them: a stripped Yup.object() has the
\* default undefined and a Yup.lazy field has no default at all, so the
\* result is {nwk_key: undefined, app_key: undefined} in all three branches.
CastRootKeys(rk, ctx, dn, da) ==
    IF ~IsSome(rk)
      THEN Some([nwk_key |-> None, app_key |-> None])
    ELSE IF ctx.given /\ ctx.externalJs
      THEN Some([nwk_key |-> None, app_key |-> None])
    ELSE IF parseLorawanMacVersion(CtxVersion(ctx)) < NewLorawanVersion
      THEN Some([nwk_key |-> None,
                 app_key |-> CastKey(Val(rk).app_key, da)])
    ELSE Some([nwk_key |-> CastKey(Val(rk).nwk_key, dn),
               app_key |-> CastKey(Val(rk).app_key, da)])

\* resets_join_nonces: default false for 1.1.0 and higher, otherwise strip.
CastResetsJoinNonces(v, ctx) ==
    IF parseLorawanMacVersion(CtxVersion(ctx)) >= NewLorawanVersion
      THEN IF IsSome(v) THEN v ELSE Some(FALSE)
      ELSE None

\* _external_js: default and transform both give the context flag.
CastExternalJs(v, ctx) ==
    IF ExtIsTrue(ctx) THEN Some(TRUE) ELSE Some(FALSE)

\* validationSchema.cast(v, {context: ctx}); dn and da are the draws of the
\* random generator for nwk_key and app_key, used only where a key defaults.
Cast(v, ctx, dn, da) ==
    [join_server_address |-> CastAddress(v.join_server_address, ctx),
     net_id              |-> CastNetId(v.net_id, ctx),
     root_keys           |-> CastRootKeys(v.root_keys, ctx, dn, da),
     resets_join_nonces  |-> CastResetsJoinNonces(v.resets_join_nonces, ctx),
     _external_js        |-> CastExternalJs(v._external_js, ctx)]


(***************************************************************************)
(* validationSchema.validate: the value is cast first, then the tests of   *)
(* the resolved schema run on the cast value.  The result is the set of    *)
(* paths that carry a validation error.  The tests do not read the random  *)
(* draws (a generated key has the required length), so the cast inside     *)
(* uses the first draw.                                                    *)
(***************************************************************************)
\* .matches(addressRegexp, ...): only in the $externalJs === false branch.
AddressError(c, ctx) ==
    ExtIsFalse(ctx) /\ IsSome(c.join_server_address)
      /\ ~addressRegexp(Val(c.join_server_address))

\* .emptyOrLength(3 * 2, m.validate6): only in the `otherwise` branch.
NetIdError(c, ctx) ==
    ~ExtIsTrue(ctx) /\ IsSome(c.net_id)
      /\ Val(c.net_id) /= "" /\ Len(Val(c.net_id)) /= NetIdHexLength

\* key: Yup.string().length(16 * 2, m.validate32), of a key object that is
\* present after the cast.
KeyError(k) ==
    IsSome(k) /\ IsSome(Val(k).key) /\ Len(Val(Val(k).key)) /= KeyHexLength

Validate(v, ctx) ==
    LET d == CHOOSE x \in Draws : TRUE
        c == Cast(v, ctx, d, d)
        ext == ctx.given /\ ctx.externalJs
        new == parseLorawanMacVersion(CtxVersion(ctx)) >= NewLorawanVersion
    IN  {p \in {"join_server_address"} : AddressError(c, ctx)}
        \cup {p \in {"net_id"} : NetIdError(c, ctx)}
        \cup {p \in {"root_keys.nwk_key.key"} :
                  ~ext /\ new /\ KeyError(Val(c.root_keys).nwk_key)}
        \cup {p \in {"root_keys.app_key.key"} :
                  ~ext /\ KeyError(Val(c.root_keys).app_key)}

(***************************************************************************)
(* Domains of the model.                                                   *)
(***************************************************************************)
BadAddress == "not a host!!"
UserKey == "00112233445566778899aabbccddeeff"
ShortKey == "abcd"
Hidden == Some([key |-> None])
Known(k) == Some([key |-> Some(k)])

Versions == { <<1, 0, 3>>, <<1, 1, 0>>, <<>> }
Addresses == { None, Some("js.example.com"), Some(BadAddress) }
NetIds == { None, Some(""), Some("abc123"), Some("abcd") }
KeyValues == { None, Hidden, Known(UserKey), Known(ShortKey) }
RootKeys ==
    { None } \cup { Some([nwk_key |-> n, app_key |-> a]) : n, a \in KeyValues }
Flags == { None, Some(TRUE), Some(FALSE) }

\* Every record the schema may be handed.
FormValues ==
    [join_server_address : Addresses, net_id : NetIds, root_keys : RootKeys,
     resets_join_nonces : Flags, _external_js : Flags]
Contexts ==
    { Context(e, v) : e \in BOOLEAN, v \in Versions } \cup { NoContext }


(***************************************************************************)
(* Collaborators of the form.                                              *)
(***************************************************************************)
\* utils.hasExternalJs: the device is taken to be provisioned on an external
\* Join Server when it carries neither root keys nor a Join Server address.
hasExternalJs(device) ==
    ~IsSome(device.root_keys) /\ ~IsSome(device.join_server_address)

\* lib/diff: diff(original, updated, exclude).  The properties of `updated`
\* outside `exclude` whose value differs from the one in `original`, with the
\* updated value.  A property that `updated` lacks is not part of the diff.
\* The excluded `_external_js` and `_lorawan_version` are no fields of a diff.
Changed(o, u) == IF IsSome(u) /\ u /= o THEN u ELSE None
diff(original, updated) ==
    [join_server_address |->
         Changed(original.join_server_address, updated.join_server_address),
     net_id |-> Changed(original.net_id, updated.net_id),
     root_keys |-> Changed(original.root_keys, updated.root_keys),
     resets_join_nonces |->
         Changed(original.resets_join_nonces, updated.resets_join_nonces)]
EmptyDiff ==
    [join_server_address |-> None, net_id |-> None, root_keys |-> None,
     resets_join_nonces |-> None]

(***************************************************************************)
(* The devices the parent may hand the form.  A device is the part of the  *)
(* end device record the form reads; it has no `_external_js`.  A device   *)
(* registered on the cluster's Join Server has a Join Server address and a *)
(* root_keys object (with a key the server does not expose as {}); a       *)
(* device provisioned on an external Join Server has neither.              *)
(***************************************************************************)
DeviceVersions == { <<1, 0, 3>>, <<1, 1, 0>> }
DeviceRecord(version, address, rootKeys, resets) ==
    [lorawan_version |-> version, join_server_address |-> address,
     net_id |-> None, root_keys |-> rootKeys, resets_join_nonces |-> resets,
     _external_js |-> None]
Devices ==
    { DeviceRecord(v, Some("js.example.com"),
                   Some([nwk_key |-> Known(UserKey), app_key |-> Known(UserKey)]),
                   r) : v \in DeviceVersions, r \in {None, Some(TRUE)} }
    \cup { DeviceRecord(<<1, 1, 0>>, Some("js.example.com"),
                        Some([nwk_key |-> None, app_key |-> Hidden]), None) }
    \cup { DeviceRecord(v, None, None, None) : v \in DeviceVersions }

\* What the user may type into the enabled inputs.
TypedAddresses == { BadAddress }
TypedKeys == { ShortKey }

Rejection == "rejected"

(***************************************************************************)
(* State.                                                                  *)
(***************************************************************************)
VARIABLES
    device,            \* props.device
    externalJs,        \* React state externalJs
    resetsJoinNonces,  \* React state resetsJoinNonces
    initialValues,     \* useMemo(() => validationSchema.cast(device), [device])
    values,            \* the form's current values
    pristine,          \* no field has changed since the form was last reset
                       \* (mount, resetForm, re-initialisation): the values
                       \* are the form's own baseline
    isSubmitting,      \* the form's submitting flag
    errors,            \* paths with a validation error, as of the last run
    error,             \* React state error, '' when none
    inflight,          \* onSubmit calls not settled yet: the updatedValues
                       \* passed and the castedValues the continuation holds
    roundTrip,         \* since the mount only inputs were typed and
                       \* externalJs went from false to true ("out") and
                       \* then to false again ("back")
    castInput, castContext, castOutput, recastOutput, castPc
                       \* a single cast and re-cast of the schema (CastSpec)

formVars ==
    << device, externalJs, resetsJoinNonces, initialValues, values, pristine,
       isSubmitting, errors, error, inflight, roundTrip >>
castVars == << castInput, castContext, castOutput, recastOutput, castPc >>
vars == << formVars, castVars >>

\* The inputs of the schema are idle while the form runs.
CastIdle ==
    /\ castInput = None
    /\ castContext = NoContext
    /\ castOutput = None
    /\ recastOutput = None
    /\ castPc = "idle"

(***************************************************************************)
(* Derived values of a render.                                             *)
(***************************************************************************)
isNewLorawanVersion ==
    parseLorawanMacVersion(device.lorawan_version) >= NewLorawanVersion
isNwkKeyHidden(d) ==
    IsSome(d.root_keys) /\ IsSome(Val(d.root_keys).nwk_key)
      /\ ~IsSome(Val(Val(d.root_keys).nwk_key).key)
isAppKeyHidden(d) ==
    IsSome(d.root_keys) /\ IsSome(Val(d.root_keys).app_key)
      /\ ~IsSome(Val(Val(d.root_keys).app_key).key)

\* The validate callback ignores the form's values and hands
\* validationSchema.validate its options, {context: {...}}, as the value: an
\* object with none of the schema's fields, validated without options.
OptionsAsValue ==
    [join_server_address |-> None, net_id |-> None, root_keys |-> None,
     resets_join_nonces |-> None, _external_js |-> None]
validate(formValues, ext, version) == Validate(OptionsAsValue, NoContext)

\* Between the start of onFormSubmit and the settling of onSubmit nothing
\* clears the submitting flag: setSubmitting(false) and resetForm run only
\* after the await.
SubmittingClearedEarly == FALSE
SubmittingDuringAwait == TRUE

(***************************************************************************)
(* Mount: the state after the first render.                                *)
(***************************************************************************)
Init ==
    /\ device \in Devices
    /\ externalJs = hasExternalJs(device)
    /\ resetsJoinNonces =
         (IF IsSome(device.resets_join_nonces)
            THEN Val(device.resets_join_nonces) ELSE FALSE)
    /\ \E dn, da \in Draws :
         initialValues =
           Cast(device, Context(hasExternalJs(device), device.lorawan_version),
                dn, da)
    /\ values = initialValues
    /\ pristine = TRUE
    /\ isSubmitting = FALSE
    /\ errors = {}
    /\ error = ""
    /\ inflight = << >>
    /\ roundTrip = "start"
    /\ CastIdle

(***************************************************************************)
(* The user types into an input.  An input is disabled as the render says; *)
(* the form stores the typed value under the field's name and validates.   *)
(***************************************************************************)
Typed(newValues) ==
    /\ values' = newValues
    /\ pristine' = FALSE
    /\ errors' = validate(newValues, externalJs, device.lorawan_version)
    /\ UNCHANGED << device, externalJs, resetsJoinNonces, initialValues,
                    isSubmitting, error, inflight, roundTrip, castVars >>

\* name="join_server_address", disabled={externalJs}
EditJoinServerAddress ==
    /\ ~externalJs
    /\ \E a \in TypedAddresses :
         Typed([values EXCEPT !.join_server_address = Some(a)])

\* name="root_keys.app_key.key", disabled={externalJs || appKeyHidden}
EditAppKey ==
    /\ ~(externalJs \/ isAppKeyHidden(device))
    /\ \E k \in TypedKeys :
         Typed([values EXCEPT
                  !.root_keys = Some([Val(@) EXCEPT !.app_key = Known(k)])])

\* name="root_keys.nwk_key.key", rendered for 1.1.0 and higher,
\* disabled={externalJs || nwkKeyHidden}
EditNwkKey ==
    /\ isNewLorawanVersion
    /\ ~(externalJs \/ isNwkKeyHidden(device))
    /\ \E k \in TypedKeys :
         Typed([values EXCEPT
                  !.root_keys = Some([Val(@) EXCEPT !.nwk_key = Known(k)])])

(***************************************************************************)
(* handleResetsJoinNoncesChange: the checkbox name="resets_join_nonces",   *)
(* rendered for 1.1.0 and higher, disabled={externalJs}.  The form flips   *)
(* the field; the handler sets the React state.                            *)
(***************************************************************************)
NextResetsJoinNonces(ext, current) == IF ext THEN FALSE ELSE current

handleResetsJoinNoncesChange ==
    /\ isNewLorawanVersion
    /\ ~externalJs
    /\ values' = [values EXCEPT
                    !.resets_join_nonces = Some(~(@ = Some(TRUE)))]
    /\ pristine' = FALSE
    /\ errors' = validate(values', externalJs, device.lorawan_version)
    /\ resetsJoinNonces' = NextResetsJoinNonces(externalJs, resetsJoinNonces)
    /\ UNCHANGED << device, externalJs, initialValues, isSubmitting, error,
                    inflight, roundTrip, castVars >>

(***************************************************************************)
(* handleExternalJsChange: the checkbox name="_external_js".  evt.target   *)
(* .checked is the negation of the field; the state flag is negated on its *)
(* own; the form values become the cast of initialValues.                  *)
(***************************************************************************)
ToggleCastsCurrent(initial, current) == current
ToggleCastSource(initial, current) == initial

RoundTripAfterToggle ==
    IF roundTrip = "start" /\ ~externalJs THEN "out"
    ELSE IF roundTrip = "out" /\ externalJs THEN "back"
    ELSE "off"

handleExternalJsChange ==
    LET externalJsChecked == ~(values._external_js = Some(TRUE))
    IN  /\ externalJs' = ~externalJs
        /\ \E dn, da \in Draws :
             values' = Cast(ToggleCastSource(initialValues, values),
                            Context(externalJsChecked, device.lorawan_version),
                            dn, da)
        /\ pristine' = FALSE
        /\ errors' = validate(values', externalJs', device.lorawan_version)
        /\ roundTrip' = RoundTripAfterToggle
        /\ UNCHANGED << device, resetsJoinNonces, initialValues, isSubmitting,
                        error, inflight, castVars >>

(***************************************************************************)
(* Form.Submit: the button is disabled while the form is submitting.  The  *)
(* form validates and, with no error, calls onFormSubmit, which runs up to *)
(* its await: cast, diff, setError(''), onSubmit(updatedValues).           *)
(***************************************************************************)
SubmitEnabled == ~isSubmitting

onFormSubmit ==
    /\ SubmitEnabled
    /\ LET found == validate(values, externalJs, device.lorawan_version)
       IN  /\ errors' = found
           /\ IF found = {}
                THEN \E dn, da \in Draws :
                       LET castedValues ==
                             Cast(values,
                                  Context(externalJs, device.lorawan_version),
                                  dn, da)
                           updatedValues == diff(initialValues, castedValues)
                       IN  /\ error' = ""
                           /\ inflight' =
                                Append(inflight,
                                       [updatedValues |-> updatedValues,
                                        castedValues |-> castedValues])
                           /\ isSubmitting' = SubmittingDuringAwait
                ELSE /\ isSubmitting' = FALSE
                     /\ UNCHANGED << error, inflight >>
    /\ roundTrip' = "off"
    /\ UNCHANGED << device, externalJs, resetsJoinNonces, initialValues,
                    values, pristine, castVars >>

\* await onSubmit(updatedValues) returns: resetForm(castedValues).
onSubmitResolved ==
    /\ inflight /= << >>
    /\ values' = Head(inflight).castedValues
    /\ pristine' = TRUE
    /\ isSubmitting' = FALSE
    /\ errors' = {}
    /\ inflight' = Tail(inflight)
    /\ UNCHANGED << device, externalJs, resetsJoinNonces, initialValues,
                    error, roundTrip, castVars >>

\* await onSubmit(updatedValues) throws: setSubmitting(false); setError(err).
onSubmitRejectedResets ==
    /\ inflight /= << >>
    /\ values' = initialValues
    /\ pristine' = TRUE
    /\ isSubmitting' = FALSE
    /\ error' = Rejection
    /\ inflight' = Tail(inflight)
    /\ UNCHANGED << device, externalJs, resetsJoinNonces, initialValues,
                    errors, roundTrip, castVars >>
onSubmitRejected ==
    /\ inflight /= << >>
    /\ isSubmitting' = FALSE
    /\ error' = Rejection
    /\ inflight' = Tail(inflight)
    /\ UNCHANGED << device, externalJs, resetsJoinNonces, initialValues,
                    values, pristine, errors, roundTrip, castVars >>

(***************************************************************************)
(* The parent renders the form with another device object.  The memo of    *)
(* initialValues is computed again; the useState hooks keep their state;   *)
(* the form (enableReinitialize) resets to the initialValues prop when it  *)
(* differs from the previous one.  The parent does so between submissions, *)
(* not while an onSubmit call is pending.                                  *)
(***************************************************************************)
DeviceChanged ==
    /\ inflight = << >>
    /\ \E d \in Devices : \E dn, da \in Draws :
         /\ device' = d
         /\ initialValues' =
              Cast(d, Context(hasExternalJs(d), d.lorawan_version), dn, da)
    /\ IF initialValues' /= initialValues
         THEN /\ values' = initialValues'
              /\ pristine' = TRUE
              /\ errors' = {}
         ELSE UNCHANGED << values, pristine, errors >>
    /\ roundTrip' = "off"
    /\ UNCHANGED << externalJs, resetsJoinNonces, isSubmitting, error,
                    inflight, castVars >>

Next ==
    \/ EditJoinServerAddress
    \/ EditAppKey
    \/ EditNwkKey
    \/ handleResetsJoinNoncesChange
    \/ handleExternalJsChange
    \/ onFormSubmit
    \/ onSubmitResolved
    \/ onSubmitRejected
    \/ DeviceChanged

Spec == Init /\ [][Next]_vars


(***************************************************************************)
(* CastSpec: the schema on its own.  The initial state draws a value and a *)
(* context; the value is cast, and the result is cast again in the same    *)
(* context.  The form is not mounted.                                      *)
(***************************************************************************)
FormUnmounted ==
    /\ device = CHOOSE d \in Devices : TRUE
    /\ externalJs = FALSE
    /\ resetsJoinNonces = FALSE
    /\ initialValues = OptionsAsValue
    /\ values = OptionsAsValue
    /\ pristine = TRUE
    /\ isSubmitting = FALSE
    /\ errors = {}
    /\ error = ""
    /\ inflight = << >>
    /\ roundTrip = "off"

CastInit ==
    /\ FormUnmounted
    /\ castInput \in { Some(v) : v \in FormValues }
    /\ castContext \in Contexts
    /\ castOutput = None
    /\ recastOutput = None
    /\ castPc = "input"

\* validationSchema.cast(value, {context})
ApplyCast ==
    /\ castPc = "input"
    /\ \E dn, da \in Draws :
         castOutput' = Some(Cast(Val(castInput), castContext, dn, da))
    /\ castPc' = "cast"
    /\ UNCHANGED << castInput, castContext, recastOutput, formVars >>

\* validationSchema.cast(output, {context}), on the output of the first cast
ApplyRecast ==
    /\ castPc = "cast"
    /\ \E dn, da \in Draws :
         recastOutput' = Some(Cast(Val(castOutput), castContext, dn, da))
    /\ castPc' = "recast"
    /\ UNCHANGED << castInput, castContext, castOutput, formVars >>

CastNext == ApplyCast \/ ApplyRecast

CastSpec == CastInit /\ [][CastNext]_vars

(***************************************************************************)
(* Properties.                                                             *)
(***************************************************************************)
HasNwkKey(v) == IsSome(v.root_keys) /\ IsSome(Val(v.root_keys).nwk_key)
HasAppKey(v) == IsSome(v.root_keys) /\ IsSome(Val(v.root_keys).app_key)
IsKey32(k) ==
    IsSome(k) /\ IsSome(Val(k).key) /\ Len(Val(Val(k).key)) = KeyHexLength
JsFields(v) ==
    << v.join_server_address, v.net_id, v.root_keys, v.resets_join_nonces >>

StripPolicy(ctx, out) ==
    LET parsed == parseLorawanMacVersion(ctx.lorawanVersion)
    IN  /\ ctx.externalJs =>
              /\ ~IsSome(out.join_server_address)
              /\ ~IsSome(out.net_id)
              /\ ~HasNwkKey(out)
              /\ ~HasAppKey(out)
        /\ parsed < NewLorawanVersion => ~HasNwkKey(out)
        /\ IsSome(out.resets_join_nonces) <=> parsed >= NewLorawanVersion

\* C1: for every input and every context with externalJs true or false, the
\* output of cast has none of join_server_address, net_id, root_keys.nwk_key
\* and root_keys.app_key when externalJs is true, has no root_keys.nwk_key
\* when the parsed version is below 110, and has resets_join_nonces exactly
\* when the parsed version is 110 or higher.
C1_StrippingPolicy ==
    castContext.given =>
        /\ castPc \in {"cast", "recast"} =>
               StripPolicy(castContext, Val(castOutput))
        /\ castPc = "recast" => StripPolicy(castContext, Val(recastOutput))

\* A cast, in an external context of an old version, of a value that has
\* every field the policy strips.
C1_Witness ==
    /\ castPc = "cast"
    /\ castContext.given /\ castContext.externalJs
    /\ parseLorawanMacVersion(castContext.lorawanVersion) < NewLorawanVersion
    /\ IsSome(Val(castInput).join_server_address)
    /\ IsSome(Val(castInput).net_id)
    /\ HasNwkKey(Val(castInput)) /\ HasAppKey(Val(castInput))
    /\ IsSome(Val(castInput).resets_join_nonces)
    /\ ~IsSome(Val(castOutput).join_server_address)
    /\ ~IsSome(Val(castOutput).resets_join_nonces)

\* C4: with externalJs false and a parsed version of 110 or higher, the cast
\* of a value without root_keys has root_keys.nwk_key.key and
\* root_keys.app_key.key, each of 32 characters, and casting the output again
\* returns it unchanged.
C4_AbsentRootKeysAreGenerated ==
    ( /\ castPc \in {"cast", "recast"}
      /\ castContext.given /\ ~castContext.externalJs
      /\ parseLorawanMacVersion(castContext.lorawanVersion) >= NewLorawanVersion
      /\ ~IsSome(Val(castInput).root_keys) )
    => /\ IsKey32(Val(Val(castOutput).root_keys).nwk_key)
       /\ IsKey32(Val(Val(castOutput).root_keys).app_key)
       /\ castPc = "recast" => recastOutput = castOutput

\* C2: once the form has validated the values the user changed, a
\* join_server_address that does not match the address pattern carries an
\* error when externalJs is false, and none when externalJs is true.
C2_BadAddressIsReported ==
    ( ~pristine /\ values.join_server_address = Some(BadAddress) )
    => IF externalJs
         THEN "join_server_address" \notin errors
         ELSE "join_server_address" \in errors

\* C3: a submit of a form whose values are its baseline (nothing changed
\* since the mount or the last successful submit) invokes onSubmit once,
\* with an empty diff.
C3_UnchangedSubmitSendsEmptyDiff ==
    [][ ( /\ ~isSubmitting /\ isSubmitting'
          /\ pristine
          /\ values._external_js = Some(externalJs) )
        => /\ Len(inflight') = Len(inflight) + 1
           /\ inflight'[Len(inflight')].updatedValues = EmptyDiff ]_vars

C6_RejectionKeepsTheForm ==
    [][ (inflight /= << >> /\ inflight' = Tail(inflight))
        => /\ ~isSubmitting'
           /\ initialValues' = initialValues
           /\ \/ /\ error' = Rejection
                 /\ values' = values
                 /\ pristine' = pristine
              \/ /\ error' = "" /\ error = ""
                 /\ values' = Head(inflight).castedValues
                 /\ pristine' ]_vars

\* A rejected submit of changed values: the changes are still in the form,
\* which is no longer submitting.
C6_Witness ==
    /\ error = Rejection
    /\ ~isSubmitting
    /\ inflight = << >>
    /\ ~pristine
    /\ values.join_server_address = Some(BadAddress)

C8_ToggleSetsTheFlag ==
    [][ ( /\ values' /= values
          /\ values' = [values EXCEPT
                          !.resets_join_nonces = Some(~(@ = Some(TRUE)))]
          /\ externalJs' = externalJs
          /\ inflight' = inflight
          /\ device' = device )
        => resetsJoinNonces' =
             (IF externalJs THEN FALSE ELSE ~resetsJoinNonces) ]_vars

\* C9: after the user switches to an external Join Server the form values
\* have no root_keys.nwk_key, no root_keys.app_key and a resets_join_nonces
\* that is not true.
C9_ExternalResetsKeysAndNonces ==
    [][ (externalJs' /= externalJs /\ values'._external_js = Some(TRUE))
        => /\ ~HasNwkKey(values')
           /\ ~HasAppKey(values')
           /\ values'.resets_join_nonces /= Some(TRUE) ]_vars

\* C10: the externalJs flag of the component equals the _external_js field
\* of the form.
C10_FlagMirrorsField == values._external_js = Some(externalJs)

====
